---- MODULE Spec2Model ----
(***************************************************************************)
(* The embedding serving pipeline of the phoenix_hypervisor repository:    *)
(* the Model Host (bin/lxc_setup/embedding_server.py) and the Request      *)
(* Proxy (src/rag-api-service/rag_api/main.py).                            *)
(*                                                                         *)
(* Spec      the Model Host application alone: its startup event, /health  *)
(*           and /v1/embeddings, which it can be handed before the startup *)
(*           event has run (model is None, the 503 guard) and after.       *)
(* PipeSpec  client -> Proxy -> Model Host -> Proxy -> client, the Host    *)
(*           run by its server, which listens once startup has succeeded.  *)
(* CancelSpec  PipeSpec with clients that disconnect before the answer.    *)
(* FeatSpec  bin/update_lxc_features.py: the run of main over a            *)
(*           configuration file.                                           *)
(***************************************************************************)
EXTENDS Integers, Sequences, FiniteSets, TLC

\* ------------------------------------------------------------------ bounds
\* Request slots: each slot carries one client request through the system.
NumReq == 2
\* Longest list a request's input field holds.
MaxInputLen == 2
\* Containers in the lxc_configs map of the configuration file.
NumContainers == 3

Reqs == 1..NumReq

\* ------------------------------------------------------------------- data
\* Python's None (os.getenv of an unset variable, the initial model).
NoneVal == "None"
\* The object SentenceTransformer(...) returns.
LoadedModel == "SentenceTransformer"
\* What EMBEDDING_MODEL_NAME can hold: unset, empty, a model identifier.
EnvValues == {NoneVal, "", "m1"}
\* The model field of a request.
ModelIds == {"m1", "m2"}
\* The texts a request can carry.
Strings == {"a", "b"}

SeqsUpTo(S, n) == UNION {[1..k -> S] : k \in 0..n}

\* input: Union[str, List[str]], as a tagged value.
StrInput(s) == [tag |-> "str", str |-> s, list |-> <<>>]
ListInput(l) == [tag |-> "list", str |-> "", list |-> l]
Inputs == {StrInput(s) : s \in Strings} \cup {ListInput(l) : l \in SeqsUpTo(Strings, MaxInputLen)}

EmbeddingRequest == [model : ModelIds, input : Inputs]

\* The vector the loaded model computes for one text (fixed dimension).
Embed(s) == IF s = "a" THEN <<1, 0>> ELSE <<0, 1>>

\* How one model.encode call can end: it returns the vectors, it raises, or it
\* returns vectors holding non-finite values (half precision overflow), which
\* no JSON response can carry.
Causes == {"CUDA out of memory", "runtime fault"}
EncodeOutcomes ==
    {[kind |-> "ok", cause |-> ""], [kind |-> "nonfinite", cause |-> ""]}
        \cup {[kind |-> "raises", cause |-> c] : c \in Causes}

\* ------------------------------------------------------------ wire values
NoValue == [kind |-> "none"]

\* A response a handler produced: status code and JSON body.
Response(status, body) == [kind |-> "response", status |-> status, fmt |-> "json", body |-> body]

\* raise HTTPException(status_code, detail): the framework answers {"detail": ...}.
HTTPException(status, detail) == Response(status, [detail |-> detail])

\* An exception that no except clause of the handler catches: the request
\* ends without a response of the handler.
Fault == [kind |-> "fault"]

VARIABLES
    env_name,    \* EMBEDDING_MODEL_NAME of the Host process
    load_ok,     \* whether SentenceTransformer(model_name) succeeds
    phase,       \* Host process: "created" | "serving" | "failed"
    model,       \* embedding_server.model
    model_name,  \* embedding_server.model_name
    health,      \* the last answer of GET /health, with the model state it saw
    hpc,         \* per slot, the Host handler: "idle" | "encoding" | "done"
    hreq,        \* per slot, the request the Host handler is working on
    hres,        \* per slot, what the Host handler ended with
    ppc,         \* per slot, the Proxy handler: "idle" | "recv" | "await" | "done"
    pbody,       \* per slot, the body of the client's request to the Proxy
    pres,        \* per slot, what the Proxy handler ended with
    attempts,    \* per slot, the client.post calls the Proxy handler has made
    pheaders,    \* per slot, the header lines of the client's request to the Proxy
    psent,       \* per slot, the request of the outstanding client.post call
    gone,        \* per slot, the client of the running Proxy handler has disconnected
    all_containers, \* update_lxc_features: configs['lxc_configs'], updated in place
    loaded,      \* update_lxc_features: lxc_configs as json.load returned it
    visit,       \* update_lxc_features: position of the update loop in the map
    fpc          \* update_lxc_features: "off" | "loop" | "dumped" | "crashed"

config == <<env_name, load_ok>>
modelState == <<phase, model, model_name>>
calls == <<hpc, hreq, hres>>
proxyVars == <<ppc, pbody, pres, attempts, pheaders, psent, gone>>
script == <<all_containers, loaded, visit, fpc>>
services == <<env_name, load_ok, phase, model, model_name, health, hpc, hreq, hres,
              ppc, pbody, pres, attempts, pheaders, psent, gone>>
vars == <<env_name, load_ok, phase, model, model_name, health, hpc, hreq, hres, ppc, pbody, pres, attempts,
          pheaders, psent, gone, all_containers, loaded, visit, fpc>>

\* ------------------------------------------------------------- Model Host

\* `if not model_name`: None and the empty string are both absent.
NameAbsent(name) == name = NoneVal \/ name = ""

\* Mutant: a missing identifier is logged, not raised.
StartupEvent_NoAbort ==
    /\ phase = "created"
    /\ model_name' = env_name
    /\ IF NameAbsent(env_name)
       THEN /\ phase' = "serving"
            /\ model' = model
       ELSE IF ~load_ok
       THEN /\ phase' = "failed"
            /\ model' = model
       ELSE /\ phase' = "serving"
            /\ model' = LoadedModel
    /\ UNCHANGED <<script, config, health, calls, proxyVars>>

\* startup_event: read the identifier, fail if absent, load the model.
\* An exception raised here aborts the process before it serves.
StartupEvent ==
    /\ phase = "created"
    /\ model_name' = env_name
    /\ IF NameAbsent(env_name)
       THEN /\ phase' = "failed"
            /\ model' = model
       ELSE IF ~load_ok
       THEN /\ phase' = "failed"
            /\ model' = model
       ELSE /\ phase' = "serving"
            /\ model' = LoadedModel
    /\ UNCHANGED <<script, config, health, calls, proxyVars>>

\* Mutant: health reports readiness.
HealthCheck_Readiness == [status |-> IF model = NoneVal THEN "not ready" ELSE "ok"]

\* health_check: a constant answer.
HealthCheck == [status |-> "ok"]

Health ==
    /\ phase # "failed"
    /\ health' = [kind |-> "answer", status |-> HealthCheck.status, loaded |-> (model # NoneVal)]
    /\ UNCHANGED <<script, config, modelState, calls, proxyVars>>

\* inputs = [request.input] if isinstance(request.input, str) else request.input
NormalizeInput(input) == IF input.tag = "str" THEN <<input.str>> ELSE input.list

\* model.encode(inputs, convert_to_tensor=True): one row per input, in order.
ModelEncode(inputs) == [i \in 1..Len(inputs) |-> Embed(inputs[i])]

\* Mutant: enumerate(embeddings, 1).
ResponseData_OneBased(embeddings) ==
    [i \in 1..Len(embeddings) |->
        [object |-> "embedding", embedding |-> embeddings[i], index |-> i]]

\* [EmbeddingData(embedding=emb.tolist(), index=i) for i, emb in enumerate(embeddings)]
ResponseData(embeddings) ==
    [i \in 1..Len(embeddings) |->
        [object |-> "embedding", embedding |-> embeddings[i], index |-> i - 1]]

\* EmbeddingResponse(data=..., model=model_name, usage=UsageData())
EmbeddingResponse(data, name) ==
    [object |-> "list", data |-> data, model |-> name,
     usage |-> [prompt_tokens |-> 0, total_tokens |-> 0]]

\* Mutant: the model-name guard is missing.
CheckRequest_NoModelCheck(req) ==
    IF model = NoneVal
    THEN HTTPException(503, <<"Model is not loaded yet.">>)
    ELSE NoValue

\* Mutant: the model-name guard runs before the model guard.
CheckRequest_NameFirst(req) ==
    IF req.model # model_name
    THEN HTTPException(400, <<"Invalid model requested.", model_name, req.model>>)
    ELSE IF model = NoneVal
    THEN HTTPException(503, <<"Model is not loaded yet.">>)
    ELSE NoValue

\* create_embeddings up to the encode call: the two guards.
CheckRequest(req) ==
    IF model = NoneVal
    THEN HTTPException(503, <<"Model is not loaded yet.">>)
    ELSE IF req.model # model_name
    THEN HTTPException(400, <<"Invalid model requested.", model_name, req.model>>)
    ELSE NoValue

\* Mutant: the encode call is not wrapped in try/except.
FinishRequest_NoCatch(req, outcome) ==
    LET inputs == NormalizeInput(req.input) IN
    IF outcome.kind \in {"raises", "nonfinite"}
    THEN Fault
    ELSE Response(200, EmbeddingResponse(ResponseData(ModelEncode(inputs)), model_name))

\* create_embeddings from the encode call on. Only the encode call is inside the
\* try block: a failure to build the response from what encode returned
\* (lines 111-121) is caught by nothing.
FinishRequest(req, outcome) ==
    LET inputs == NormalizeInput(req.input) IN
    IF outcome.kind = "raises"
    THEN HTTPException(500, <<"Error during embedding generation:", outcome.cause>>)
    ELSE IF outcome.kind = "nonfinite"
    THEN Fault
    ELSE Response(200, EmbeddingResponse(ResponseData(ModelEncode(inputs)), model_name))

\* The handler of slot q has ended with the 500 of a failed encode call.
EncodeFailed(q) == hpc[q] = "done" /\ hres[q].encode.kind = "raises"

\* What a finished handler leaves in its slot: the outcome, how its encode call
\* ended (NoValue: never called), the model the request asked for, and whether
\* an encode call of another request had failed before this handler ended.
Ended(res, asked, enc) ==
    [res |-> res, encode |-> enc, asked |-> asked,
     after |-> \E q \in Reqs : EncodeFailed(q)]

\* Mutant: the handler drops the model when it ends.
HandlerGlobals_Reset == phase' = phase /\ model' = NoneVal /\ model_name' = model_name

\* `global model, model_name` in create_embeddings: the handler names the two
\* globals and assigns neither.
HandlerGlobals == UNCHANGED <<phase, model, model_name>>

\* The Host handler takes request req in slot r.
Deliver(r, req) ==
    LET chk == CheckRequest(req) IN
    /\ IF chk # NoValue
       THEN /\ hpc' = [hpc EXCEPT ![r] = "done"]
            /\ hres' = [hres EXCEPT ![r] = Ended(chk, req.model, NoValue)]
            /\ hreq' = hreq
       ELSE /\ hpc' = [hpc EXCEPT ![r] = "encoding"]
            /\ hreq' = [hreq EXCEPT ![r] = req]
            /\ hres' = hres
    /\ HandlerGlobals

\* The Host application is handed a POST /v1/embeddings: by its server, or
\* in-process before the startup event has run (model is still None).
DirectCall(r) ==
    /\ phase # "failed"
    /\ hpc[r] = "idle"
    /\ \E req \in EmbeddingRequest : Deliver(r, req)
    /\ UNCHANGED <<script, config, health, proxyVars>>

\* The encode call of slot r ends and the handler returns.
HostEncode(r) ==
    /\ hpc[r] = "encoding"
    /\ \E outcome \in EncodeOutcomes :
          hres' = [hres EXCEPT ![r] = Ended(FinishRequest(hreq[r], outcome), hreq[r].model, outcome)]
    /\ hpc' = [hpc EXCEPT ![r] = "done"]
    /\ hreq' = [hreq EXCEPT ![r] = NoValue]
    /\ HandlerGlobals
    /\ UNCHANGED <<script, config, health, proxyVars>>

\* The request model of the route (request: EmbeddingRequest): a body that is
\* no EmbeddingRequest is answered 422 before the handler runs.
HostReceive(r, value) ==
    IF value \in EmbeddingRequest
    THEN Deliver(r, value)
    ELSE /\ hpc' = [hpc EXCEPT ![r] = "done"]
         /\ hres' = [hres EXCEPT ![r] =
                Ended(HTTPException(422, <<"validation error">>), NoneVal, NoValue)]
         /\ hreq' = hreq
         /\ UNCHANGED modelState

\* What the Host's server puts on the wire for a finished handler: the handler's
\* response, or its own plain-text 500 page for an uncaught exception.
HostReply(end) ==
    IF end.res.kind = "fault"
    THEN [kind |-> "response", status |-> 500, fmt |-> "text",
          body |-> [text |-> "Internal Server Error"]]
    ELSE end.res

\* ---------------------------------------------------------- Request Proxy

\* The bodies clients send to the Proxy: text that is no JSON, a JSON value
\* that is no embedding request, and embedding requests.
PipeRequests ==
    {[model |-> "m2", input |-> StrInput("a")],
     [model |-> "m1", input |-> ListInput(<<"a", "b">>)]}
\* A body text: whether it is JSON, the value it denotes, and whether it is
\* byte for byte the text the JSON serializer writes for that value (spacing,
\* escapes, number forms, one member per key).
JsonText(v, canon) == [fmt |-> "json", val |-> v, canon |-> canon]
JsonBody(v) == JsonText(v, TRUE)
MalformedBody == [fmt |-> "text", val |-> [raw |-> "{"], canon |-> FALSE]
ClientBodies ==
    {MalformedBody, JsonText([other |-> "x"], FALSE)} \cup {JsonBody(q) : q \in PipeRequests}

\* The header lines of a client request, in order, as <<name, value>>; a
\* field name can occur on more than one line.
PlainHeaders == <<<<"Host", "proxy">>, <<"Content-Length", "42">>, <<"Authorization", "k">>>>
RepeatedHeaders == <<<<"host", "proxy">>, <<"x-tag", "1">>, <<"x-tag", "2">>>>
ClientHeaders == {PlainHeaders, RepeatedHeaders}

\* The requests clients send to the Proxy: a body with its header lines.
ClientRequests ==
    {c \in [body : ClientBodies, headers : ClientHeaders] :
        c.headers = RepeatedHeaders <=> (c.body.fmt = "json" /\ c.body.val \in PipeRequests
                                           /\ c.body.val.model = "m1")}

\* key.lower()
Lower(name) ==
    CASE name = "Host" -> "host"
      [] name = "Content-Length" -> "content-length"
      [] name = "Authorization" -> "authorization"
      [] OTHER -> name

\* request.headers.items(): every header line, names in lower case.
HeaderItems(lines) == [i \in 1..Len(lines) |-> <<Lower(lines[i][1]), lines[i][2]>>]

\* {key: value for key, value in ... if key.lower() not in ['host',
\* 'content-length']}: a dict, as the set of its items; a later item with the
\* same key replaces the earlier one.
ForwardHeaders(items) ==
    {items[i] : i \in {k \in 1..Len(items) :
        /\ Lower(items[k][1]) \notin {"host", "content-length"}
        /\ \A j \in (k + 1)..Len(items) : items[j][1] # items[k][1]}}

\* await request.json(): the value the body text denotes.
JsonParse(text) == text.val

\* client.post(json=body): the serializer's text for the value.
JsonDumps(v) == JsonText(v, TRUE)

\* response.raise_for_status() passes.
IsSuccess(status) == status >= 200 /\ status <= 299

\* Mutant: no `except httpx.RequestError` clause; the generic clause answers.
BadGateway_Generic(e) == HTTPException(500, <<"An unexpected error occurred:", e>>)

\* The three except clauses of create_embedding.
BadGateway(e) == HTTPException(502, <<"Error connecting to the embedding model service:", e>>)
Unexpected(e) == HTTPException(500, <<"An unexpected error occurred:", e>>)

\* Mutant: the success path relays response.text, so the client gets the Host's
\* body quoted inside a JSON string.
Relay_Quoted(reply) ==
    IF IsSuccess(reply.status)
    THEN Response(reply.status, [quoted |-> reply.body])
    ELSE IF reply.fmt = "json"
         THEN Response(reply.status, reply.body)
         ELSE Fault

\* create_embedding from the Host's reply on: raise_for_status, then the relay
\* of the parsed body. response.json() raises on a body that is no JSON: in the
\* try block `except Exception` catches it; in the `except HTTPStatusError`
\* clause nothing does.
Relay(reply) ==
    IF IsSuccess(reply.status)
    THEN IF reply.fmt = "json"
         THEN Response(reply.status, reply.body)
         ELSE Unexpected("JSONDecodeError")
    ELSE IF reply.fmt = "json"
         THEN Response(reply.status, reply.body)
         ELSE Fault

\* What a finished Proxy handler leaves in its slot: the outcome and the reply
\* of the Host it had received (NoValue: none).
PEnded(res, got) == [res |-> res, got |-> got]

\* EMBEDDING_MODEL_URL answers: the Host's server (uvicorn.run) listens once
\* startup has succeeded, and never after startup has failed.
HostReachable == phase = "serving"

\* A client posts to the Proxy's /v1/embeddings.
ProxyAccept(r) ==
    /\ ppc[r] = "idle"
    /\ hpc[r] = "idle"
    /\ \E c \in ClientRequests :
          /\ pbody' = [pbody EXCEPT ![r] = c.body]
          /\ pheaders' = [pheaders EXCEPT ![r] = c.headers]
    /\ ppc' = [ppc EXCEPT ![r] = "recv"]
    /\ UNCHANGED <<script, config, modelState, health, calls, pres, attempts, psent, gone>>

\* body = await request.json(), then client.post(...): the body is parsed and
\* the request sent; a refused connection ends the handler with 502.
ProxyForward(r) ==
    /\ ppc[r] = "recv"
    /\ pbody' = [pbody EXCEPT ![r] = NoValue]
    /\ pheaders' = [pheaders EXCEPT ![r] = <<>>]
    /\ IF pbody[r].fmt # "json"
       THEN /\ pres' = [pres EXCEPT ![r] = PEnded(Unexpected("JSONDecodeError"), NoValue)]
            /\ ppc' = [ppc EXCEPT ![r] = "done"]
            /\ UNCHANGED <<calls, modelState, attempts, psent>>
       ELSE IF ~HostReachable
       THEN /\ pres' = [pres EXCEPT ![r] = PEnded(BadGateway("ConnectError"), NoValue)]
            /\ ppc' = [ppc EXCEPT ![r] = "done"]
            /\ attempts' = [attempts EXCEPT ![r] = @ + 1]
            /\ UNCHANGED <<calls, modelState, psent>>
       ELSE LET out == [body |-> JsonDumps(JsonParse(pbody[r])),
                        headers |-> ForwardHeaders(HeaderItems(pheaders[r]))]
            IN  /\ psent' = [psent EXCEPT ![r] = out]
                /\ HostReceive(r, JsonParse(out.body))
                /\ ppc' = [ppc EXCEPT ![r] = "await"]
                /\ attempts' = [attempts EXCEPT ![r] = @ + 1]
                /\ pres' = pres
    /\ UNCHANGED <<script, config, health, gone>>

\* The Host's reply arrives: the rest of the handler runs.
ProxyRecv(r) ==
    /\ ppc[r] = "await"
    /\ hpc[r] = "done"
    /\ LET reply == HostReply(hres[r]) IN
          pres' = [pres EXCEPT ![r] = PEnded(Relay(reply), reply)]
    /\ ppc' = [ppc EXCEPT ![r] = "done"]
    /\ psent' = [psent EXCEPT ![r] = NoValue]
    /\ gone' = [gone EXCEPT ![r] = FALSE]
    /\ UNCHANGED <<script, config, modelState, health, calls, pbody, attempts, pheaders>>

\* Mutant: a timeout of the Proxy's call aborts the Host's handler.
ProxyTimeout_Cancel(r) ==
    /\ ppc[r] = "await"
    /\ pres' = [pres EXCEPT ![r] = PEnded(BadGateway("ReadTimeout"), NoValue)]
    /\ ppc' = [ppc EXCEPT ![r] = "done"]
    /\ psent' = [psent EXCEPT ![r] = NoValue]
    /\ gone' = [gone EXCEPT ![r] = FALSE]
    /\ hpc' = [hpc EXCEPT ![r] = "idle"]
    /\ hreq' = [hreq EXCEPT ![r] = NoValue]
    /\ hres' = [hres EXCEPT ![r] = NoValue]
    /\ UNCHANGED <<script, config, modelState, health, pbody, attempts, pheaders>>

\* Mutant: a call that timed out is sent once more before the handler gives up.
ProxyTimeout_Retry(r) ==
    /\ ppc[r] = "await"
    /\ IF attempts[r] < 2
       THEN /\ attempts' = [attempts EXCEPT ![r] = @ + 1]
            /\ UNCHANGED <<ppc, pres>>
       ELSE /\ pres' = [pres EXCEPT ![r] = PEnded(BadGateway("ReadTimeout"), NoValue)]
            /\ ppc' = [ppc EXCEPT ![r] = "done"]
            /\ attempts' = attempts
    /\ UNCHANGED <<script, config, modelState, health, calls, pbody, pheaders, psent, gone>>

\* timeout=60.0 expires first: httpx raises a RequestError. The Host's handler
\* is not told.
ProxyTimeout(r) ==
    /\ ppc[r] = "await"
    /\ pres' = [pres EXCEPT ![r] = PEnded(BadGateway("ReadTimeout"), NoValue)]
    /\ ppc' = [ppc EXCEPT ![r] = "done"]
    /\ psent' = [psent EXCEPT ![r] = NoValue]
    /\ gone' = [gone EXCEPT ![r] = FALSE]
    /\ UNCHANGED <<script, config, modelState, health, calls, pbody, attempts, pheaders>>

\* The client stops waiting and closes its connection while the call to the
\* Host is outstanding. The handler has no code for this: it awaits the call
\* as before, and what it returns has no reader; the connection is done with
\* when the handler ends.
ClientDisconnect(r) ==
    /\ ppc[r] = "await"
    /\ ~gone[r]
    /\ gone' = [gone EXCEPT ![r] = TRUE]
    /\ UNCHANGED <<script, config, modelState, health, calls, ppc, pbody, pres, attempts, pheaders, psent>>

\* ---------------------------------------------------- update_lxc_features

\* The keys of lxc_configs, numbered in the order of the file: the update loop
\* visits them in this order, and a clone_from_ctid link can point forward or
\* backward in it.
Ctids == 1..NumContainers
\* A container without the clone_from_ctid key.
NoParent == 0
\* A CTID that is no key of lxc_configs.
MissingCtid == NumContainers + 1
ParentRefs == {NoParent, MissingCtid} \cup Ctids

\* The features lists of the file: unsorted, with a repeated entry, empty.
FeatureLists == {<<>>, <<"nvidia", "docker">>, <<"docker", "docker">>}
\* The order sorted() puts feature names in.
FeatureOrder == <<"docker", "nesting", "nvidia">>

Container == [features : FeatureLists, clone_from_ctid : ParentRefs]

\* set(list)
ToSet(list) == {list[i] : i \in DOMAIN list}

\* sorted(list(features))
SortedList(features) == SelectSeq(FeatureOrder, LAMBDA f : f \in features)

\* The interpreter's recursion limit: deeper than any chain of distinct
\* containers; the call that would exceed it raises RecursionError.
RecursionLimit == NumContainers + 2
RecursionError == [kind |-> "raised", features |-> {}]
Returned(features) == [kind |-> "returned", features |-> features]

\* Mutant: the parent's own features are added, not the parent's result.
RECURSIVE get_all_features_OneLevel(_, _, _)
get_all_features_OneLevel(container, all_configs, depth) ==
    LET features == ToSet(container.features)
        parent_id == container.clone_from_ctid
    IN  IF parent_id # NoParent /\ parent_id \in DOMAIN all_configs
        THEN Returned(features \cup ToSet(all_configs[parent_id].features))
        ELSE Returned(features)

\* get_all_features(container, all_configs), called at stack depth `depth`.
RECURSIVE get_all_features(_, _, _)
get_all_features(container, all_configs, depth) ==
    IF depth > RecursionLimit
    THEN RecursionError
    ELSE LET features == ToSet(container.features)
             parent_id == container.clone_from_ctid
         IN  IF parent_id # NoParent /\ parent_id \in DOMAIN all_configs
             THEN LET inherited == get_all_features(all_configs[parent_id], all_configs, depth + 1)
                  IN  IF inherited.kind = "raised"
                      THEN RecursionError
                      ELSE Returned(features \cup inherited.features)
             ELSE Returned(features)

\* One pass of the loop of main: the features of the next container are
\* computed from the map as it is now and written back into it. An exception
\* of get_all_features leaves main: the run ends there.
UpdateContainer ==
    /\ fpc = "loop"
    /\ visit \in Ctids
    /\ LET all_features == get_all_features(all_containers[visit], all_containers, 1)
       IN  IF all_features.kind = "raised"
           THEN /\ fpc' = "crashed"
                /\ UNCHANGED <<all_containers, visit>>
           ELSE /\ all_containers' = [all_containers EXCEPT
                       ![visit].features = SortedList(all_features.features)]
                /\ visit' = visit + 1
                /\ fpc' = fpc
    /\ UNCHANGED <<loaded, services>>

\* The loop has ended: json.dump writes the map.
DumpConfigs ==
    /\ fpc = "loop"
    /\ visit \notin Ctids
    /\ fpc' = "dumped"
    /\ UNCHANGED <<all_containers, loaded, visit, services>>

\* ---------------------------------------------------------- specifications
ServicesInit ==
    /\ env_name \in EnvValues
    /\ load_ok \in BOOLEAN
    /\ phase = "created"
    /\ model = NoneVal
    /\ model_name = ""
    /\ health = NoValue
    /\ hpc = [r \in Reqs |-> "idle"]
    /\ hreq = [r \in Reqs |-> NoValue]
    /\ hres = [r \in Reqs |-> NoValue]
    /\ ppc = [r \in Reqs |-> "idle"]
    /\ pbody = [r \in Reqs |-> NoValue]
    /\ pres = [r \in Reqs |-> NoValue]
    /\ attempts = [r \in Reqs |-> 0]
    /\ pheaders = [r \in Reqs |-> <<>>]
    /\ psent = [r \in Reqs |-> NoValue]
    /\ gone = [r \in Reqs |-> FALSE]

\* The services run; the script does not.
Init ==
    /\ ServicesInit
    /\ all_containers = <<>>
    /\ loaded = <<>>
    /\ visit = 0
    /\ fpc = "off"

Next ==
    \/ StartupEvent
    \/ Health
    \/ \E r \in Reqs : DirectCall(r)
    \/ \E r \in Reqs : HostEncode(r)

Spec == Init /\ [][Next]_vars

PipeNext ==
    \/ StartupEvent
    \/ \E r \in Reqs : ProxyAccept(r)
    \/ \E r \in Reqs : ProxyForward(r)
    \/ \E r \in Reqs : HostEncode(r)
    \/ \E r \in Reqs : ProxyRecv(r)
    \/ \E r \in Reqs : ProxyTimeout(r)

\* The event loop runs every handler that can run, the timeout of an
\* outstanding call expires, and an encode call returns or raises.
PipeFairness ==
    \A r \in Reqs :
        /\ WF_vars(ProxyForward(r))
        /\ WF_vars(ProxyRecv(r))
        /\ WF_vars(ProxyTimeout(r))
        /\ WF_vars(HostEncode(r))

PipeSpec == Init /\ [][PipeNext]_vars /\ PipeFairness

\* The pipeline with clients that may give up while their request is with the
\* Host. The Host's encode call returns or raises whatever the Proxy and the
\* client do.
CancelNext ==
    \/ PipeNext
    \/ \E r \in Reqs : ClientDisconnect(r)

HostFairness == \A r \in Reqs : WF_vars(HostEncode(r))

CancelSpec == Init /\ [][CancelNext]_vars /\ HostFairness

\* main of update_lxc_features.py after json.load, over every map of
\* containers; the services play no part. The script runs on until main
\* returns or an exception leaves it.
FeatInit ==
    /\ ServicesInit
    /\ env_name = NoneVal
    /\ load_ok = FALSE
    /\ all_containers \in [Ctids -> Container]
    /\ loaded = all_containers
    /\ visit = 1
    /\ fpc = "loop"

FeatNext == UpdateContainer \/ DumpConfigs

FeatSpec == FeatInit /\ [][FeatNext]_vars /\ WF_vars(FeatNext)

\* ------------------------------------------------------------------ claims

\* The model a request taken by the Host in this step asked for.
TakenModel(r) == IF hpc'[r] = "encoding" THEN hreq'[r].model ELSE hres'[r].asked
Taken(r) == hpc[r] = "idle" /\ hpc'[r] # "idle"
Finished(r) == hpc[r] = "done" /\ hres[r].res.kind = "response"

\* C1: with the model loaded, a request whose model field differs from the
\* loaded identifier ends at once with the 400 response, and encode is not
\* called for it.
C1_MismatchIs400 ==
    [][\A r \in Reqs :
        (Taken(r) /\ model # NoneVal /\ TakenModel(r) \in ModelIds /\ TakenModel(r) # model_name)
            => /\ hpc'[r] = "done"
               /\ hres'[r].res.kind = "response"
               /\ hres'[r].res.status = 400
               /\ hres'[r].res.body = [detail |-> <<"Invalid model requested.", model_name, TakenModel(r)>>]
               /\ hres'[r].encode = NoValue]_vars

C1_Witness ==
    \E r \in Reqs :
        /\ Finished(r)
        /\ hres[r].res.status = 400
        /\ model = LoadedModel
        /\ hres[r].asked # model_name
        /\ hres[r].encode = NoValue

\* C2: a successful response has one entry per item of the normalized input
\* (a single string counts as a one-element list), entry i carries index i and
\* the vector of input item i.
C2_Normalized(input) == IF input.tag = "str" THEN <<input.str>> ELSE input.list
C2_DataMatchesInput ==
    [][\A r \in Reqs :
        (hpc[r] = "encoding" /\ hpc'[r] = "done" /\ hres'[r].res.kind = "response"
            /\ hres'[r].res.status = 200)
            => LET inputs == C2_Normalized(hreq[r].input)
                   data == hres'[r].res.body.data
               IN  /\ Len(data) = Len(inputs)
                   /\ \A i \in 1..Len(inputs) :
                        /\ data[i].index = i - 1
                        /\ data[i].embedding = Embed(inputs[i])
                   /\ hreq[r].input.tag = "str" => (Len(data) = 1 /\ data[1].index = 0)]_vars

C2_Witness ==
    \E r \in Reqs :
        /\ Finished(r)
        /\ hres[r].res.status = 200
        /\ Len(hres[r].res.body.data) = 2
        /\ hres[r].res.body.data[1].embedding = Embed("b")
        /\ hres[r].res.body.data[2].embedding = Embed("a")
        /\ hres[r].res.body.data[2].index = 1

\* C7: model and model_name change only in the startup step, which happens at
\* most once: once the process has left its initial phase no step changes them.
C7_ModelWrittenOnce ==
    [][/\ phase # "created" => (model' = model /\ model_name' = model_name /\ phase' # "created")
       /\ (model' # model \/ model_name' # model_name) => (phase = "created" /\ phase' # "created")]_vars

C7_Witness ==
    /\ phase = "serving"
    /\ model = LoadedModel
    /\ model_name = "m1"
    /\ \E r \in Reqs : Finished(r) /\ hres[r].res.status = 200
    /\ \E r \in Reqs : Finished(r) /\ hres[r].res.status = 500
    /\ health.kind = "answer"

\* C8: when the model identifier is unset or empty, or loading raises, startup
\* ends in the failed process, the model is not loaded, and from then on the
\* process takes and answers no request.
C8_FailedStartupServesNothing ==
    /\ [](/\ (phase # "created" /\ (env_name \in {NoneVal, ""} \/ ~load_ok)) => phase = "failed"
          /\ phase = "failed" => model = NoneVal
          /\ phase = "serving" => model = LoadedModel)
    /\ [][phase = "failed" => (phase' = "failed" /\ hpc' = hpc /\ hres' = hres /\ health' = health)]_vars

C8_Witness ==
    /\ phase = "failed"
    /\ env_name = NoneVal
    /\ model = NoneVal
    /\ \A r \in Reqs : hpc[r] = "idle"

\* C9 as stated: /health answers "ok" exactly when the model is loaded and
\* "not ready" otherwise.
C9_HealthReportsReadiness ==
    health.kind = "answer" =>
        /\ health.status = "ok" <=> health.loaded
        /\ ~health.loaded => health.status = "not ready"

\* C9 amended: /health answers the constant "ok" whether or not the model is
\* loaded; a call before the load and a call after it get the same answer.
C9_HealthIsConstant == health.kind = "answer" => health.status = "ok"

C9_Witness == health.kind = "answer" /\ ~health.loaded /\ health.status = "ok" /\ model = NoneVal

\* C10: an encode call that raises ends its request with the 500 response whose
\* detail carries the cause; the model state stays as startup left it, and a
\* valid request taken or finished after the failure is served: it reaches
\* encode, and its successful encode yields the 200 response.
C10_EncodeFailureIsRequestScoped ==
    /\ [](\A r \in Reqs : EncodeFailed(r) =>
            /\ hres[r].res = [kind |-> "response", status |-> 500, fmt |-> "json",
                              body |-> [detail |-> <<"Error during embedding generation:",
                                                     hres[r].encode.cause>>]]
            /\ hres[r].encode.cause \in Causes
            /\ phase = "serving" /\ model = LoadedModel /\ model_name = env_name)
    /\ [][(\E q \in Reqs : EncodeFailed(q)) =>
            \A r \in Reqs :
                /\ (Taken(r) /\ TakenModel(r) = env_name) => hpc'[r] = "encoding"
                /\ (hpc[r] = "encoding" /\ hpc'[r] = "done" /\ hres'[r].encode.kind = "ok")
                      => (hres'[r].res.kind = "response" /\ hres'[r].res.status = 200)]_vars

C10_Witness ==
    \E r, q \in Reqs :
        /\ EncodeFailed(r)
        /\ hres[r].res.status = 500
        /\ Finished(q)
        /\ hres[q].res.status = 200
        /\ hres[q].after
        /\ model = LoadedModel

\* The Proxy handler of slot r has ended after receiving the Host's reply.
Relayed(r) == ppc[r] = "done" /\ pres[r].got.kind = "response"

\* C3: when the Host answered with a 2xx status, the client gets the status
\* code and the body of the Host's reply.
C3_SuccessRelayed ==
    \A r \in Reqs :
        (Relayed(r) /\ pres[r].got.status \in 200..299) =>
            /\ pres[r].res.kind = "response"
            /\ pres[r].res.status = pres[r].got.status
            /\ pres[r].res.fmt = pres[r].got.fmt
            /\ pres[r].res.body = pres[r].got.body

C3_Witness ==
    \E r \in Reqs :
        /\ Relayed(r)
        /\ pres[r].got.status = 200
        /\ pres[r].res.status = 200
        /\ Len(pres[r].res.body.data) = 2
        /\ pres[r].res.body.usage = [prompt_tokens |-> 0, total_tokens |-> 0]

\* C4: when the Host answered with a non-2xx status, the client gets that
\* status code and that body from the Proxy's handler.
C4_ErrorRelayed ==
    \A r \in Reqs :
        (Relayed(r) /\ pres[r].got.status \notin 200..299) =>
            /\ pres[r].res.kind = "response"
            /\ pres[r].res.status = pres[r].got.status
            /\ pres[r].res.fmt = pres[r].got.fmt
            /\ pres[r].res.body = pres[r].got.body

\* C5 as stated: a request the Proxy ends while the Host is unreachable ends
\* with 502, whatever the request.
C5_UnreachableIs502 ==
    [][\A r \in Reqs :
        (ppc[r] = "recv" /\ phase # "serving" /\ ppc'[r] = "done")
            => (pres'[r].res.kind = "response" /\ pres'[r].res.status = 502)]_vars

\* C5 amended: with the Host unreachable, a received request whose body is
\* JSON eventually ends with 502 (a body that is no JSON ends with 500), and
\* no received request stays pending.
C5_UnreachableEndsIn502 ==
    \A r \in Reqs :
        /\ (ppc[r] = "recv" /\ phase = "failed" /\ pbody[r].fmt = "json")
              ~> (ppc[r] = "done" /\ pres[r].res.kind = "response" /\ pres[r].res.status = 502)
        /\ (ppc[r] = "recv" /\ phase = "failed" /\ pbody[r].fmt # "json")
              ~> (ppc[r] = "done" /\ pres[r].res.kind = "response" /\ pres[r].res.status = 500)
        /\ (ppc[r] \in {"recv", "await"}) ~> (ppc[r] = "done")

C5_Witness ==
    \E r \in Reqs :
        /\ phase = "failed"
        /\ ppc[r] = "done"
        /\ hpc[r] = "idle"
        /\ pres[r].res = [kind |-> "response", status |-> 502, fmt |-> "json",
                          body |-> [detail |-> <<"Error connecting to the embedding model service:",
                                                 "ConnectError">>]]

\* C6: every failed request of either service ends with a response of its
\* handler (a status code and a JSON body); none ends with an exception that
\* leaves the handler.
C6_NoUnhandledFault ==
    \A r \in Reqs :
        /\ hpc[r] = "done" => (hres[r].res.kind = "response" /\ hres[r].res.fmt = "json")
        /\ ppc[r] = "done" => (pres[r].res.kind = "response" /\ pres[r].res.fmt = "json")

\* C11: a request the Host takes while the model is not loaded ends at once
\* with the 503 response, whatever model it asks for; encode is not called and
\* the response carries no embedding data.
C11_NotLoadedIs503 ==
    [][\A r \in Reqs :
        (Taken(r) /\ model = NoneVal)
            => /\ hpc'[r] = "done"
               /\ hres'[r].res = [kind |-> "response", status |-> 503, fmt |-> "json",
                                  body |-> [detail |-> <<"Model is not loaded yet.">>]]
               /\ hres'[r].encode = NoValue
               /\ hreq'[r] = NoValue]_vars

C11_Witness ==
    /\ model = NoneVal
    /\ \E r, q \in Reqs :
          /\ Finished(r) /\ hres[r].res.status = 503 /\ hres[r].asked = "m1"
          /\ Finished(q) /\ hres[q].res.status = 503 /\ hres[q].asked = "m2"
          /\ hres[r].encode = NoValue

\* C12: the Proxy calls client.post at most once per client request: once the
\* call has been made (it is outstanding, or the handler has ended after a
\* refused connection, a timeout or a Host error status) no step makes another
\* call and the Host is handed no second request for it.
C12_SingleAttempt ==
    /\ [](\A r \in Reqs : attempts[r] \in {0, 1})
    /\ [][\A r \in Reqs :
            /\ ppc[r] \in {"await", "done"} => (attempts'[r] = attempts[r] /\ ~Taken(r))
            /\ Taken(r) => (attempts[r] = 0 /\ attempts'[r] = 1)]_vars

C12_Witness ==
    \E r, q \in Reqs :
        /\ ppc[r] = "done" /\ attempts[r] = 1
        /\ pres[r].res.kind = "response" /\ pres[r].res.status = 502
        /\ pres[r].res.body.detail[2] = "ReadTimeout"
        /\ ppc[q] = "done" /\ attempts[q] = 1
        /\ pres[q].got.kind = "response" /\ pres[q].got.status = 500

\* C13: the request the Proxy sends carries the client's body text as the
\* client sent it, and as headers exactly the client's header lines whose name
\* is neither host nor content-length in any letter case: none of the others
\* is missing and no other is present.
C13_Kept(lines) ==
    {<<Lower(lines[i][1]), lines[i][2]>> : i \in {k \in 1..Len(lines) :
        Lower(lines[k][1]) \notin {"host", "content-length"}}}
C13_ForwardedUnmodified ==
    [][\A r \in Reqs :
        (ppc[r] = "recv" /\ ppc'[r] = "await")
            => /\ psent'[r].body = pbody[r]
               /\ psent'[r].headers = C13_Kept(pheaders[r])]_vars

\* C14: an encode call the Host has started for a forwarded request ends, and
\* until it ends no step of the Proxy or the client takes the request from the
\* Host; a Proxy handler that ends before the Host has answered ends with the
\* 502 of the timeout; the outcome of an ended Proxy handler never changes, so
\* a result the Host produces later reaches no client; and the reply a Proxy
\* handler relays is the one the Host produced for its own forwarded request.
C14_TimedOut ==
    [kind |-> "response", status |-> 502, fmt |-> "json",
     body |-> [detail |-> <<"Error connecting to the embedding model service:", "ReadTimeout">>]]
C14_HostWorkNotCancelled ==
    /\ \A r \in Reqs : (hpc[r] = "encoding") ~> (hpc[r] = "done")
    /\ [][\A r \in Reqs :
            /\ hpc[r] = "encoding" =>
                  \/ hpc'[r] = "encoding" /\ hreq'[r] = hreq[r]
                  \/ hpc'[r] = "done" /\ hres'[r].encode.kind # "none"
            /\ hpc[r] = "done" => (hpc'[r] = "done" /\ hres'[r] = hres[r])
            /\ (ppc[r] = "await" /\ ppc'[r] = "done" /\ hpc[r] # "done")
                  => (pres'[r].res = C14_TimedOut /\ pres'[r].got = NoValue)
            /\ (ppc[r] = "await" /\ ppc'[r] = "done" /\ pres'[r].got # NoValue)
                  => (hpc[r] = "done" /\ pres'[r].got = HostReply(hres[r]))
            /\ ppc[r] = "done" => (ppc'[r] = "done" /\ pres'[r] = pres[r])]_vars

C14_Witness ==
    \E r, q \in Reqs :
        /\ ppc[r] = "done" /\ pres[r].res = C14_TimedOut
        /\ hpc[r] = "done" /\ hres[r].encode.kind = "ok" /\ hres[r].res.status = 200
        /\ ppc[q] = "await" /\ gone[q]
        /\ hpc[q] = "done" /\ hres[q].encode.kind = "ok"

\* C15: every call of get_all_features the update loop makes returns a feature
\* set: no run over a map of containers ends in an exception, whatever the
\* clone_from_ctid links are.
C15_AlwaysReturns == fpc # "crashed"

\* The containers on the clone_from_ctid chain of c in the loaded map, c
\* included.
C16_Chain(c) ==
    LET Step(S) == S \cup ({loaded[a].clone_from_ctid : a \in S} \cap Ctids)
        RECURSIVE Closure(_, _)
        Closure(S, n) == IF n = 0 THEN S ELSE Closure(Step(S), n - 1)
    IN  Closure({c}, NumContainers)
C16_Union(c) == UNION {{loaded[a].features[i] : i \in DOMAIN loaded[a].features} : a \in C16_Chain(c)}
C16_IsSorted(list) ==
    \A i, j \in DOMAIN list :
        i < j => \E m, n \in DOMAIN FeatureOrder :
                    m < n /\ FeatureOrder[m] = list[i] /\ FeatureOrder[n] = list[j]

\* C16: every container the loop has passed holds the sorted list, without
\* repeats, of the loaded features of the containers on its chain; the others
\* hold their loaded features; so after the loop every container does,
\* wherever its ancestors stand in the file.
C16_FeaturesAreChainUnion ==
    fpc \in {"loop", "dumped", "crashed"} =>
        /\ fpc = "dumped" => visit = NumContainers + 1
        /\ \A c \in Ctids :
              IF c < visit
              THEN LET list == all_containers[c].features
                   IN  /\ {list[i] : i \in DOMAIN list} = C16_Union(c)
                       /\ C16_IsSorted(list)
                       /\ all_containers[c].clone_from_ctid = loaded[c].clone_from_ctid
              ELSE all_containers[c] = loaded[c]

C16_Witness ==
    /\ fpc = "dumped"
    /\ loaded[2].clone_from_ctid = 1 /\ loaded[3].clone_from_ctid = 2
    /\ loaded[1].clone_from_ctid = MissingCtid
    /\ loaded[1].features = <<"nvidia", "docker">>
    /\ loaded[2].features = <<>>
    /\ loaded[3].features = <<"docker", "docker">>
    /\ all_containers[3].features = <<"docker", "nvidia">>

====
